---- MODULE Spec2Model ----
(***************************************************************************)
(* Room coordination and signalling relay of the meeting server            *)
(* (backend/server.js, the socket.io 'connection' handler with join-room,   *)
(* send-message and disconnect, and updateRoomCount).                       *)
(*                                                                         *)
(* Each socket.io event handler runs to completion on the Node event loop, *)
(* so each handler is one action.  The events a handler emits are kept, in *)
(* emit order, in `emitted`, with the set of connections each was          *)
(* delivered to; `lastOp` names the inbound event that was handled.        *)
(*                                                                         *)
(* socket.io semantics used (library, not repository code):                *)
(*   - socket.rooms is a Set that holds socket.id and the joined rooms;    *)
(*   - io.to(r).emit reaches every socket whose rooms hold r at the emit;  *)
(*   - socket.to(r).emit reaches the same sockets except the socket;       *)
(*   - on close the socket leaves all its rooms before the 'disconnect'    *)
(*     listeners run, and 'disconnect' is emitted once per socket;         *)
(*   - listeners of one event run in registration order.                   *)
(* Room identifiers chosen by clients are taken to differ from the         *)
(* server-generated socket ids.                                            *)
(***************************************************************************)
EXTENDS Integers, Sequences, FiniteSets, TLC

VARIABLES
    connState,            \* per connection: "new", "connected", "disconnected"
    socketRooms,          \* socket.rooms of each connection
    rooms,                \* the Map `rooms`: roomId -> count
    messageHandlers,      \* per connection: roomId captured by each messageHandler bound
    disconnectHandlers,   \* per connection: (roomId, userId) captured by each disconnectHandler
    emitted,              \* events emitted by the last handler, in order
    lastOp,               \* the inbound event handled last
    meetingId,            \* Meeting page of each connection: its route parameter
    messages,             \* Meeting page of each connection: its `messages` state
    toServer,             \* send-message events in flight from each page's socket
    toClient,             \* receive-message events in flight to each page's socket
    meetings,             \* join-meeting variant: the Map `rooms`, meetingId -> users
    page                  \* one Meeting component: its state, closures and resources

\* State of server.js (join-room program), of the Meeting pages, and of the
\* join-meeting variant of the server
serverVars == <<connState, socketRooms, rooms, messageHandlers, disconnectHandlers,
                emitted, lastOp>>
pageVars == <<meetingId, messages, toServer, toClient>>
variantVars == <<meetings>>
componentVars == <<page>>

vars == <<serverVars, pageVars, variantVars, componentVars>>

----------------------------------------------------------------------------
\* Bounds of the model

\* Connections that ever connect, room identifiers clients use, and the number
\* of per-join handler pairs that may be bound at one time over all sockets.
NumConns == 2
NumRooms == 2
MaxJoins == 3
\* Chat messages one Meeting page sends.
MaxChats == 1

SocketId(i) == "s" \o ToString(i)
Conns == {SocketId(i) : i \in 1..NumConns}
RoomIds == {"room-" \o ToString(i) : i \in 1..NumRooms}

\* The peer identifier a client sends with join-room (peer.id of its page).
PeerId(c) == "peer-" \o c

\* What a client may send as roomId / userId: a proper value or a falsy one.
RoomInputs == RoomIds \cup {""}
UserInputs(c) == {PeerId(c), ""}

\* The chat message a client sends: it carries the client's own timestamp.
ClientTime == "client-time"
ServerTime == "server-time"
ClientMessage(c) ==
    [id |-> "m-" \o c, userId |-> PeerId(c), content |-> "hi", timestamp |-> ClientTime]

----------------------------------------------------------------------------
\* The rooms Map

Max(a, b) == IF a >= b THEN a ELSE b

\* rooms.get(roomId) || 0
RoomGet(rm, roomId) == IF roomId \in DOMAIN rm THEN rm[roomId] ELSE 0

\* rooms.delete(roomId)
MapDelete(rm, roomId) == [k \in (DOMAIN rm) \ {roomId} |-> rm[k]]

\* rooms.set(roomId, v)
MapSet(rm, roomId, v) ==
    [k \in (DOMAIN rm) \cup {roomId} |-> IF k = roomId THEN v ELSE rm[k]]

\* Mutant of ClampCount: the clamp at zero is missing.
ClampCountNoMax(n) == n

\* Math.max(0, currentCount + change)
ClampCount(n) == Max(0, n)

\* Mutant of StoreCount: a zero count is stored instead of deleted.
StoreCountNoDelete(rm, roomId, newCount) == MapSet(rm, roomId, newCount)

\* if (newCount === 0) rooms.delete(roomId) else rooms.set(roomId, newCount)
StoreCount(rm, roomId, newCount) ==
    IF newCount = 0 THEN MapDelete(rm, roomId) ELSE MapSet(rm, roomId, newCount)

\* updateRoomCount(roomId, change): the new table and the value returned.
updateRoomCount(rm, roomId, change) ==
    IF roomId = ""
    THEN [rooms |-> rm, ret |-> 0]
    ELSE LET currentCount == RoomGet(rm, roomId)
             newCount == ClampCount(currentCount + change)
         IN  [rooms |-> StoreCount(rm, roomId, newCount), ret |-> newCount]

----------------------------------------------------------------------------
\* The relay: who an emit reaches

\* The sockets in a room at this moment (the adapter's room -> sockets view).
Members(sr, room) == {c \in Conns : room \in sr[c]}

\* Mutant of IoTo: the emit goes to the membership the room had when the
\* handler started (a cached snapshot), not to the membership at the emit.
IoToSnapshot(sr, room, ev, payload) ==
    [ev |-> ev, room |-> room, to |-> Members(socketRooms, room), payload |-> payload]

\* io.to(room).emit(ev, payload)
IoTo(sr, room, ev, payload) ==
    [ev |-> ev, room |-> room, to |-> Members(sr, room), payload |-> payload]

\* socket.to(room).emit(ev, payload): everyone in the room but the socket.
SocketTo(sr, c, room, ev, payload) ==
    [ev |-> ev, room |-> room, to |-> Members(sr, room) \ {c}, payload |-> payload]

----------------------------------------------------------------------------
\* The per-join handler pairs bound at this moment, over the sockets of S
RECURSIVE BoundHandlers(_, _)
BoundHandlers(dh, S) ==
    IF S = {}
    THEN 0
    ELSE LET c == CHOOSE x \in S : TRUE
         IN  Len(dh[c]) + BoundHandlers(dh, S \ {c})

Init ==
    /\ connState = [c \in Conns |-> "new"]
    /\ socketRooms = [c \in Conns |-> {}]
    /\ rooms = <<>>
    /\ messageHandlers = [c \in Conns |-> <<>>]
    /\ disconnectHandlers = [c \in Conns |-> <<>>]
    /\ emitted = <<>>
    /\ lastOp = [op |-> "init", c |-> "", roomId |-> "", userId |-> ""]
    /\ meetingId = [c \in Conns |-> ""]
    /\ messages = [c \in Conns |-> <<>>]
    /\ toServer = [c \in Conns |-> <<>>]
    /\ toClient = [c \in Conns |-> <<>>]
    /\ meetings = <<>>
    /\ page = [phase |-> "initial", param |-> "",
               socket |-> "", peer |-> "", stream |-> "",
               rendered |-> [socket |-> "", peer |-> "", stream |-> "", meetingId |-> ""],
               cleanup |-> [socket |-> "", peer |-> "", stream |-> ""],
               sockets |-> [c \in Conns |-> "none"],
               peers |-> [c \in Conns |-> "none"],
               media |-> [c \in Conns |-> "none"]]

\* io.on('connection'): a new socket, member of its own room only.
Connect(c) ==
    /\ connState[c] = "new"
    /\ connState' = [connState EXCEPT ![c] = "connected"]
    /\ socketRooms' = [socketRooms EXCEPT ![c] = {c}]
    /\ emitted' = <<>>
    /\ lastOp' = [op |-> "connect", c |-> c, roomId |-> "", userId |-> ""]
    /\ UNCHANGED <<rooms, messageHandlers, disconnectHandlers>>

----------------------------------------------------------------------------
\* join-room

\* Mutant of PreviousRooms: the loop runs over the rooms of every socket.
PreviousRoomsOfAll(sr, c) == UNION {sr[d] \ {d} : d \in Conns}

\* The rooms the forEach of "Leave previous rooms" acts on: room !== socket.id
PreviousRooms(sr, c) == {room \in sr[c] : room # c}

\* Mutant of LeavePrevious: the previous rooms are not left.
LeavePreviousKeep(sr, c) == sr[c]

\* socket.rooms after socket.leave(room) for every previous room
LeavePrevious(sr, c) == sr[c] \ PreviousRooms(sr, c)

\* Mutant of LeaveCounts: the rooms left are not decremented.
LeaveCountsSkip(rm, left) == rm

\* The table after updateRoomCount(room, -1) for every room of `left`
RECURSIVE LeaveCounts(_, _)
LeaveCounts(rm, left) ==
    IF left = {}
    THEN rm
    ELSE LET room == CHOOSE r \in left : TRUE
         IN  LeaveCounts(updateRoomCount(rm, room, -1).rooms, left \ {room})

\* Mutant of JoinEmits: the join announcement goes to the whole room (io.to).
JoinEmitsToAll(sr, c, roomId, userId, count) ==
    << IoTo(sr, roomId, "user-connected", [userId |-> userId]),
       IoTo(sr, roomId, "user-joined", [totalUsers |-> count]) >>

\* Mutant of JoinEmits: the count is emitted before the join announcement.
JoinEmitsCountFirst(sr, c, roomId, userId, count) ==
    << IoTo(sr, roomId, "user-joined", [totalUsers |-> count]),
       SocketTo(sr, c, roomId, "user-connected", [userId |-> userId]) >>

\* "Notify others in the room": the two emits of an accepted join, in order.
JoinEmits(sr, c, roomId, userId, count) ==
    << SocketTo(sr, c, roomId, "user-connected", [userId |-> userId]),
       IoTo(sr, roomId, "user-joined", [totalUsers |-> count]) >>

\* Mutant of InvalidJoin: only the room identifier is validated.
InvalidJoinRoomOnly(roomId, userId) == roomId = ""

\* if (!roomId || !userId) return
InvalidJoin(roomId, userId) == roomId = "" \/ userId = ""

\* socket.on('join-room', (roomId, userId) => ...)
JoinRoom(c, roomId, userId) ==
    /\ connState[c] = "connected"
    /\ ~InvalidJoin(roomId, userId) => BoundHandlers(disconnectHandlers, Conns) < MaxJoins
    /\ lastOp' = [op |-> "join-room", c |-> c, roomId |-> roomId, userId |-> userId]
    /\ IF InvalidJoin(roomId, userId)
       THEN /\ emitted' = <<>>
            /\ UNCHANGED <<connState, socketRooms, rooms, messageHandlers,
                           disconnectHandlers>>
       ELSE LET rm1 == LeaveCounts(rooms, PreviousRooms(socketRooms, c))
                sr1 == [socketRooms EXCEPT ![c] = LeavePrevious(socketRooms, c) \cup {roomId}]
                upd == updateRoomCount(rm1, roomId, 1)
            IN  /\ socketRooms' = sr1
                /\ rooms' = upd.rooms
                /\ emitted' = JoinEmits(sr1, c, roomId, userId, upd.ret)
                /\ messageHandlers' =
                       [messageHandlers EXCEPT ![c] = Append(@, roomId)]
                /\ disconnectHandlers' =
                       [disconnectHandlers EXCEPT
                           ![c] = Append(@, [roomId |-> roomId, userId |-> userId])]
                /\ UNCHANGED connState

----------------------------------------------------------------------------
\* send-message

\* The connection-level listener registered at connect time (it is the first
\* 'send-message' listener of every socket): relays the message as received.
ConnectionSendMessage(sr, roomId, message) ==
    << IoTo(sr, roomId, "receive-message", message) >>

\* { ...message, timestamp: new Date() }
Stamp(message) == [message EXCEPT !.timestamp = ServerTime]

\* Mutant of messageHandler: the messageRoomId !== roomId guard is missing.
messageHandlerNoGuard(sr, roomId, messageRoomId, message) ==
    << IoTo(sr, roomId, "receive-message", Stamp(message)) >>

\* The messageHandler closure of a join to roomId, called with (messageRoomId, message)
messageHandler(sr, roomId, messageRoomId, message) ==
    IF messageRoomId # roomId
    THEN <<>>
    ELSE << IoTo(sr, roomId, "receive-message", Stamp(message)) >>

\* The per-join listeners, in registration order
RECURSIVE RunMessageHandlers(_, _, _, _)
RunMessageHandlers(sr, hs, messageRoomId, message) ==
    IF hs = <<>>
    THEN <<>>
    ELSE messageHandler(sr, Head(hs), messageRoomId, message)
         \o RunMessageHandlers(sr, Tail(hs), messageRoomId, message)

\* Every 'send-message' listener of socket c, in registration order
SendMessageEmits(sr, c, roomId, message) ==
    ConnectionSendMessage(sr, roomId, message)
    \o RunMessageHandlers(sr, messageHandlers[c], roomId, message)

\* The server handles send-message(roomId, message) of socket c
HandleSendMessage(c, roomId, message) ==
    /\ connState[c] = "connected"
    /\ emitted' = SendMessageEmits(socketRooms, c, roomId, message)
    /\ lastOp' = [op |-> "send-message", c |-> c, roomId |-> roomId, userId |-> ""]
    /\ UNCHANGED <<connState, socketRooms, rooms, messageHandlers, disconnectHandlers>>

\* The client emits send-message(roomId, message)
SendMessage(c, roomId) == HandleSendMessage(c, roomId, ClientMessage(c))

----------------------------------------------------------------------------
\* disconnect

\* Mutant of disconnectHandler: the count update is lost (the count is read,
\* not decremented).
disconnectHandlerLostUpdate(sr, rm, c, h) ==
    [rooms |-> rm,
     emits |-> << SocketTo(sr, c, h.roomId, "user-disconnected", [userId |-> h.userId]),
                  IoTo(sr, h.roomId, "user-joined", [totalUsers |-> RoomGet(rm, h.roomId)]) >>]

\* Mutant of disconnectHandler: the count is emitted before the announcement.
disconnectHandlerCountFirst(sr, rm, c, h) ==
    LET upd == updateRoomCount(rm, h.roomId, -1)
    IN  [rooms |-> upd.rooms,
         emits |-> << IoTo(sr, h.roomId, "user-joined", [totalUsers |-> upd.ret]),
                      SocketTo(sr, c, h.roomId, "user-disconnected", [userId |-> h.userId]) >>]

\* One disconnectHandler closure (roomId, userId), run on table rm with the
\* socket already out of its rooms: the new table and the two emits.
disconnectHandler(sr, rm, c, h) ==
    LET upd == updateRoomCount(rm, h.roomId, -1)
    IN  [rooms |-> upd.rooms,
         emits |-> << SocketTo(sr, c, h.roomId, "user-disconnected", [userId |-> h.userId]),
                      IoTo(sr, h.roomId, "user-joined", [totalUsers |-> upd.ret]) >>]

\* Mutant of RunDisconnectHandlers: a disconnect decrements every room of the
\* table, whatever the socket joined.
RunDisconnectHandlersEveryRoom(sr, rm, c, hs) ==
    [rooms |-> LeaveCounts(rm, DOMAIN rm), emits |-> <<>>]

\* Every 'disconnect' listener of the socket, in registration order
RECURSIVE RunDisconnectHandlers(_, _, _, _)
RunDisconnectHandlers(sr, rm, c, hs) ==
    IF hs = <<>>
    THEN [rooms |-> rm, emits |-> <<>>]
    ELSE LET one == disconnectHandler(sr, rm, c, Head(hs))
             rest == RunDisconnectHandlers(sr, one.rooms, c, Tail(hs))
         IN  [rooms |-> rest.rooms, emits |-> one.emits \o rest.emits]

\* The transport closes socket c
Disconnect(c) ==
    /\ connState[c] = "connected"
    /\ LET sr1 == [socketRooms EXCEPT ![c] = {}]
           run == RunDisconnectHandlers(sr1, rooms, c, disconnectHandlers[c])
       IN  /\ socketRooms' = sr1
           /\ rooms' = run.rooms
           /\ emitted' = run.emits
    /\ connState' = [connState EXCEPT ![c] = "disconnected"]
    /\ messageHandlers' = [messageHandlers EXCEPT ![c] = <<>>]
    /\ disconnectHandlers' = [disconnectHandlers EXCEPT ![c] = <<>>]
    /\ lastOp' = [op |-> "disconnect", c |-> c, roomId |-> "", userId |-> ""]

----------------------------------------------------------------------------
Next ==
    \/ \E c \in Conns : Connect(c) /\ UNCHANGED <<pageVars, componentVars, variantVars>>
    \/ \E c \in Conns : \E roomId \in RoomInputs : \E userId \in UserInputs(c) :
           JoinRoom(c, roomId, userId) /\ UNCHANGED <<pageVars, componentVars, variantVars>>
    \/ \E c \in Conns : \E roomId \in RoomInputs :
           SendMessage(c, roomId) /\ UNCHANGED <<pageVars, componentVars, variantVars>>
    \/ \E c \in Conns : Disconnect(c) /\ UNCHANGED <<pageVars, componentVars, variantVars>>

Spec == Init /\ [][Next]_vars
----------------------------------------------------------------------------
\* Vocabulary of the properties

\* The meeting rooms of a connection: socket.rooms without its own id room
MeetingRooms(c) == socketRooms[c] \ {c}

\* The connections that are members of a room now
RoomMembers(room) == Members(socketRooms, room)

\* The last inbound event was a join-room that passed validation
AcceptedJoin == lastOp.op = "join-room" /\ lastOp.roomId # "" /\ lastOp.userId # ""

\* The positions of `emitted` holding event ev delivered to connection m
DeliveredAt(ev, m) == {i \in DOMAIN emitted : emitted[i].ev = ev /\ m \in emitted[i].to}

----------------------------------------------------------------------------
\* C1: in every reachable state the count recorded for each room (0 without an
\* entry) equals the number of connections that are members of the room, and is
\* never negative.
C1_CountEqualsMembers ==
    \A room \in RoomIds :
        /\ RoomGet(rooms, room) = Cardinality(RoomMembers(room))
        /\ RoomGet(rooms, room) >= 0

\* C2: a connection is a member of at most one meeting room at any time, and
\* after an accepted join-room it is a member of the requested room only.
C2_AtMostOneRoom ==
    /\ \A c \in Conns : Cardinality(MeetingRooms(c)) <= 1
    /\ AcceptedJoin => MeetingRooms(lastOp.c) = {lastOp.roomId}

\* C2 witness: a connection that was in one room has just joined another one.
C2_Witness ==
    /\ AcceptedJoin
    /\ Len(disconnectHandlers[lastOp.c]) >= 2
    /\ disconnectHandlers[lastOp.c][1].roomId # lastOp.roomId
    /\ MeetingRooms(lastOp.c) = {lastOp.roomId}

\* C3: a joined connection has exactly one chat handler and one disconnect
\* handler bound, both for its current room; no handler of a vacated room or of
\* an earlier join remains.
C3_SingleHandlerSet ==
    \A c \in Conns :
        MeetingRooms(c) # {} =>
            /\ Len(messageHandlers[c]) = 1
            /\ Len(disconnectHandlers[c]) = 1
            /\ messageHandlers[c][1] \in MeetingRooms(c)
            /\ disconnectHandlers[c][1].roomId \in MeetingRooms(c)

\* C5: a chat message addressed to room R is delivered to every connection that
\* is a member of R at that moment and to no connection outside R.
C5_ChatReachesExactlyTheRoom ==
    lastOp.op = "send-message" =>
        /\ \A m \in RoomMembers(lastOp.roomId) : DeliveredAt("receive-message", m) # {}
        /\ \A m \in Conns \ RoomMembers(lastOp.roomId) :
               DeliveredAt("receive-message", m) = {}

\* C5 witness: a member that earlier sat in another room sends to its room
\* while some connection is outside that room; the message reached the room.
C5_Witness ==
    /\ lastOp.op = "send-message"
    /\ lastOp.roomId \in MeetingRooms(lastOp.c)
    /\ \E i \in DOMAIN messageHandlers[lastOp.c] :
           messageHandlers[lastOp.c][i] # lastOp.roomId
    /\ \E m \in Conns : MeetingRooms(m) # {} /\ lastOp.roomId \notin MeetingRooms(m)
    /\ DeliveredAt("receive-message", lastOp.c) # {}

\* C6: a send-message from a connection that is not a member of the addressed
\* room delivers no receive-message to anyone.
C6_NonMemberSendIgnored ==
    (lastOp.op = "send-message" /\ lastOp.roomId \notin MeetingRooms(lastOp.c)) =>
        \A m \in Conns : DeliveredAt("receive-message", m) = {}

\* C7: every receive-message delivered to a client carries the server's
\* timestamp, never the one the sending client supplied.
C7_ServerTimestampOnly ==
    \A i \in DOMAIN emitted :
        (emitted[i].ev = "receive-message" /\ emitted[i].to # {}) =>
            /\ emitted[i].payload.timestamp = ServerTime
            /\ emitted[i].payload.timestamp # ClientTime

\* C9: the room table never holds an entry with a count below 1, a decrement
\* that would reach zero or less removes the entry, and no count update
\* returns a negative value.
C9_NoEmptyRoomEntry ==
    /\ \A room \in DOMAIN rooms : rooms[room] >= 1
    /\ \A room \in RoomIds :
           LET upd == updateRoomCount(rooms, room, -1)
           IN  /\ upd.ret >= 0
               /\ RoomGet(rooms, room) <= 1 => (room \notin DOMAIN upd.rooms /\ upd.ret = 0)
    /\ \A i \in DOMAIN emitted :
           emitted[i].ev = "user-joined" => emitted[i].payload.totalUsers >= 0

\* C9 witness: the last member of a room disconnected; the update returned 0
\* and the room has no entry.
C9_Witness ==
    /\ lastOp.op = "disconnect"
    /\ \E i \in DOMAIN emitted :
           /\ emitted[i].ev = "user-joined"
           /\ emitted[i].payload.totalUsers = 0
           /\ emitted[i].room \notin DOMAIN rooms
           /\ RoomMembers(emitted[i].room) = {}
    /\ DOMAIN rooms # {}
----------------------------------------------------------------------------
\* Properties of one step: the state before (unprimed) and after (primed)

\* This step is the disconnect of connection c
DisconnectStep(c) ==
    connState[c] = "connected" /\ lastOp'.op = "disconnect" /\ lastOp'.c = c

\* The positions of the events of this step holding ev delivered to m
DeliveredNextAt(ev, m) ==
    {i \in DOMAIN emitted' : emitted'[i].ev = ev /\ m \in emitted'[i].to}

\* C4: when a member of room R disconnects, each remaining member of R gets
\* exactly one user-disconnected carrying the leaver's peer identifier and
\* exactly one user-joined whose value is the number of remaining members,
\* whatever joins the leaver issued before; R keeps its entry while members
\* remain.
C4_DisconnectAnnouncedOnce ==
    [][ \A c \in Conns : \A room \in RoomIds :
          (DisconnectStep(c) /\ room \in socketRooms[c]) =>
              LET remaining == Members(socketRooms', room)
              IN  /\ \A m \in remaining :
                        /\ Cardinality(DeliveredNextAt("user-disconnected", m)) = 1
                        /\ \A i \in DeliveredNextAt("user-disconnected", m) :
                               emitted'[i].payload.userId = PeerId(c)
                        /\ Cardinality(DeliveredNextAt("user-joined", m)) = 1
                        /\ \A i \in DeliveredNextAt("user-joined", m) :
                               emitted'[i].payload.totalUsers = Cardinality(remaining)
                  /\ remaining # {} => room \in DOMAIN rooms'
      ]_vars

\* This step is an accepted join-room of connection c for roomId
AcceptedJoinStep(c, roomId) ==
    /\ connState[c] = "connected"
    /\ lastOp'.op = "join-room" /\ lastOp'.c = c
    /\ lastOp'.roomId = roomId /\ roomId # "" /\ lastOp'.userId # ""

\* C8: when a member of room R1 joins a different room R2, a departure
\* announcement for it reaches the remaining members of R1 before any
\* user-connected for R2 is delivered.
C8_LeaveAnnouncedBeforeJoin ==
    [][ \A c \in Conns : \A r1 \in RoomIds : \A r2 \in RoomIds \ {r1} :
          (AcceptedJoinStep(c, r2) /\ r1 \in socketRooms[c]
               /\ Members(socketRooms', r1) # {}) =>
              \E i \in DOMAIN emitted' :
                  /\ emitted'[i].ev = "user-disconnected"
                  /\ emitted'[i].payload.userId = PeerId(c)
                  /\ Members(socketRooms', r1) \subseteq emitted'[i].to
                  /\ \A j \in DOMAIN emitted' :
                         emitted'[j].ev = "user-connected" => i < j
      ]_vars

\* The handlers of hs without those that repeat the room of an earlier one
RECURSIVE OncePerRoom(_, _)
OncePerRoom(hs, seen) ==
    IF hs = <<>>
    THEN <<>>
    ELSE IF Head(hs).roomId \in seen
         THEN OncePerRoom(Tail(hs), seen)
         ELSE <<Head(hs)>> \o OncePerRoom(Tail(hs), seen \cup {Head(hs).roomId})

\* C10: processing a connection's departure from a room twice leaves the room
\* counts as processing it once does.
C10_DepartureIdempotent ==
    [][ \A c \in Conns :
          DisconnectStep(c) =>
              rooms' = RunDisconnectHandlers(socketRooms', rooms, c,
                                             OncePerRoom(disconnectHandlers[c], {})).rooms
      ]_vars

----------------------------------------------------------------------------
\* C11: when a connection disconnects, only the room it is a member of at that
\* moment has its count changed and is sent events; a room it left earlier by
\* joining another room keeps its count and receives no event.
C11_DisconnectTouchesCurrentRoomOnly ==
    [][ \A c \in Conns : \A room \in RoomIds :
          (DisconnectStep(c) /\ room \notin socketRooms[c]) =>
              /\ RoomGet(rooms', room) = RoomGet(rooms, room)
              /\ \A i \in DOMAIN emitted' :
                     emitted'[i].room = room => emitted'[i].to = {}
      ]_vars

\* This step is a join-room of connection c with an empty roomId or userId
RejectedJoinStep(c) ==
    /\ connState[c] = "connected"
    /\ lastOp'.op = "join-room" /\ lastOp'.c = c
    /\ (lastOp'.roomId = "" \/ lastOp'.userId = "")

\* C12: a join-room with an empty or missing room or peer identifier changes
\* neither the room table nor any membership nor any bound handler, and emits
\* nothing.
C12_InvalidJoinIsNoOp ==
    [][ \A c \in Conns :
          RejectedJoinStep(c) =>
              /\ rooms' = rooms
              /\ socketRooms' = socketRooms
              /\ messageHandlers' = messageHandlers
              /\ disconnectHandlers' = disconnectHandlers
              /\ connState' = connState
              /\ emitted' = <<>>
      ]_vars

\* C12 witness: a member of a room sent a join-room without a peer identifier
\* and is still in its room, with its one handler pair, and nothing was emitted.
C12_Witness ==
    /\ lastOp.op = "join-room"
    /\ lastOp.roomId # "" /\ lastOp.userId = ""
    /\ MeetingRooms(lastOp.c) # {}
    /\ lastOp.roomId \notin MeetingRooms(lastOp.c)
    /\ Len(disconnectHandlers[lastOp.c]) = 1
    /\ emitted = <<>>

----------------------------------------------------------------------------
\* C13: on an accepted join of c to room R with peer identifier p, a
\* user-connected carrying p is delivered to every member of R other than c and
\* never to c; no earlier member is announced to c.
C13_JoinAnnouncedToOthersOnly ==
    AcceptedJoin =>
        /\ \A m \in RoomMembers(lastOp.roomId) \ {lastOp.c} :
               \E i \in DeliveredAt("user-connected", m) :
                   /\ emitted[i].payload.userId = lastOp.userId
                   /\ emitted[i].room = lastOp.roomId
        /\ DeliveredAt("user-connected", lastOp.c) = {}
        /\ \A i \in DOMAIN emitted :
               emitted[i].ev = "user-connected" =>
                   /\ emitted[i].payload.userId = lastOp.userId
                   /\ emitted[i].to = RoomMembers(lastOp.roomId) \ {lastOp.c}

\* C13 witness: a connection joined a room that already had a member; the
\* member was told, the joiner was not.
C13_Witness ==
    /\ AcceptedJoin
    /\ RoomMembers(lastOp.roomId) \ {lastOp.c} # {}
    /\ \A m \in RoomMembers(lastOp.roomId) \ {lastOp.c} :
           DeliveredAt("user-connected", m) # {}
    /\ DeliveredAt("user-connected", lastOp.c) = {}

\* C14: on an accepted join to room R the join announcement is emitted before
\* the occupant-count event, and the count event is delivered to every member
\* of R, the joiner included.
C14_AnnounceThenCountToAll ==
    AcceptedJoin =>
        /\ \E i \in DOMAIN emitted : \E j \in DOMAIN emitted :
               /\ i < j
               /\ emitted[i].ev = "user-connected" /\ emitted[i].room = lastOp.roomId
               /\ emitted[j].ev = "user-joined" /\ emitted[j].room = lastOp.roomId
        /\ \A i \in DOMAIN emitted : \A j \in DOMAIN emitted :
               (emitted[i].ev = "user-connected" /\ emitted[j].ev = "user-joined") => i < j
        /\ lastOp.c \in RoomMembers(lastOp.roomId)
        /\ \A m \in RoomMembers(lastOp.roomId) :
               \E j \in DeliveredAt("user-joined", m) : emitted[j].room = lastOp.roomId

\* C14 witness: two members after a join; both were sent the count, after the
\* announcement.
C14_Witness ==
    /\ AcceptedJoin
    /\ Cardinality(RoomMembers(lastOp.roomId)) = 2
    /\ Len(emitted) = 2
    /\ emitted[1].ev = "user-connected" /\ emitted[1].to # {}
    /\ emitted[2].ev = "user-joined" /\ emitted[2].to = RoomMembers(lastOp.roomId)

----------------------------------------------------------------------------
\* C15: every membership change of a room (an accepted join, the implicit
\* leave of a member that joins another room, a disconnect) is followed by an
\* occupant-count event delivered to the members the room has after the change.
C15_CountAfterEveryMembershipChange ==
    [][ \A room \in RoomIds :
          Members(socketRooms', room) # Members(socketRooms, room) =>
              \A m \in Members(socketRooms', room) :
                  \E i \in DOMAIN emitted' :
                      /\ emitted'[i].ev = "user-joined"
                      /\ emitted'[i].room = room
                      /\ m \in emitted'[i].to
      ]_vars

----------------------------------------------------------------------------
\* C16: once the last member of a room has departed the room has no entry and
\* its count reads 0, and the next accepted join to it announces a count of 1,
\* whatever happened while the room was occupied before.
C16_EmptyRoomForgotten ==
    [][ \A room \in RoomIds :
          /\ Members(socketRooms', room) = {} =>
                 (room \notin DOMAIN rooms' /\ RoomGet(rooms', room) = 0)
          /\ \A c \in Conns :
                 (AcceptedJoinStep(c, room) /\ Members(socketRooms, room) = {}) =>
                     /\ RoomGet(rooms', room) = 1
                     /\ \E i \in DOMAIN emitted' :
                            emitted'[i].ev = "user-joined" /\ emitted'[i].room = room
                     /\ \A i \in DOMAIN emitted' :
                            (emitted'[i].ev = "user-joined" /\ emitted'[i].room = room) =>
                                emitted'[i].payload.totalUsers = 1
      ]_vars

\* C16 witness: a connection joined a room that another connection had
\* occupied and left; it is the only member and was told a count of 1.
C16_Witness ==
    /\ AcceptedJoin
    /\ RoomMembers(lastOp.roomId) = {lastOp.c}
    /\ \E m \in Conns \ {lastOp.c} : \E k \in DOMAIN disconnectHandlers[m] :
           disconnectHandlers[m][k].roomId = lastOp.roomId
    /\ Len(disconnectHandlers[lastOp.c]) = 1
    /\ \E i \in DeliveredAt("user-joined", lastOp.c) : emitted[i].payload.totalUsers = 1
    /\ RoomGet(rooms, lastOp.roomId) = 1

----------------------------------------------------------------------------
\* The server driven by clients that each issue at most one accepted join-room

\* join-room from a connection that has had no accepted join yet
JoinRoomOnce(c, roomId, userId) ==
    /\ ~InvalidJoin(roomId, userId) => disconnectHandlers[c] = <<>>
    /\ JoinRoom(c, roomId, userId)

NextOneJoin ==
    \/ \E c \in Conns : Connect(c) /\ UNCHANGED <<pageVars, componentVars, variantVars>>
    \/ \E c \in Conns : \E roomId \in RoomInputs : \E userId \in UserInputs(c) :
           JoinRoomOnce(c, roomId, userId) /\ UNCHANGED <<pageVars, componentVars, variantVars>>
    \/ \E c \in Conns : Disconnect(c) /\ UNCHANGED <<pageVars, componentVars, variantVars>>

SpecOneJoin == Init /\ [][NextOneJoin]_vars

\* C17: under every interleaving of join-room and disconnect events of
\* connections that each join at most once, no count update is lost: the table
\* holds the number of members of every room and every user-joined carries the
\* number of members its room has at that moment (the k-th joiner sees k).
C17_CountsExactWithOneJoinEach ==
    /\ \A room \in RoomIds : RoomGet(rooms, room) = Cardinality(RoomMembers(room))
    /\ \A i \in DOMAIN emitted :
           emitted[i].ev = "user-joined" =>
               emitted[i].payload.totalUsers = Cardinality(RoomMembers(emitted[i].room))

\* C17 witness: the second joiner of a room; both members are told 2.
C17_Witness ==
    /\ AcceptedJoin
    /\ Cardinality(RoomMembers(lastOp.roomId)) = 2
    /\ \A m \in RoomMembers(lastOp.roomId) :
           \E i \in DeliveredAt("user-joined", m) : emitted[i].payload.totalUsers = 2

----------------------------------------------------------------------------
\* The events the code sends with io.to (whole room); the others it sends with
\* socket.to (the room without the socket whose handler runs).
WholeRoomEvents == {"user-joined", "receive-message"}

\* C18: every broadcast goes to the membership the room has at the emit: a
\* connection that has left room R (by joining another room or disconnecting)
\* receives nothing broadcast to R afterwards, and a member of R receives
\* every event broadcast to R (socket.to leaving out only the emitting socket).
C18_BroadcastUsesCurrentMembership ==
    \A i \in DOMAIN emitted :
        /\ emitted[i].to \subseteq RoomMembers(emitted[i].room)
        /\ \A c \in Conns :
               emitted[i].room \notin socketRooms[c] => c \notin emitted[i].to
        /\ IF emitted[i].ev \in WholeRoomEvents
           THEN emitted[i].to = RoomMembers(emitted[i].room)
           ELSE emitted[i].to = RoomMembers(emitted[i].room) \ {lastOp.c}

\* C18 witness: an event is broadcast to a room that a connection had joined
\* and left; the present members receive it, the connection that left does not.
C18_Witness ==
    \E i \in DOMAIN emitted : \E c \in Conns \ {lastOp.c} :
        /\ \E k \in DOMAIN disconnectHandlers[c] :
               disconnectHandlers[c][k].roomId = emitted[i].room
        /\ emitted[i].room \notin socketRooms[c]
        /\ MeetingRooms(c) # {}
        /\ emitted[i].to # {}
        /\ c \notin emitted[i].to

----------------------------------------------------------------------------
\* C20: on the disconnect of a member of room R the departure announcement is
\* emitted to the remaining members before the updated occupant count, and the
\* disconnecting connection receives neither.
C20_AnnounceThenCountOnDisconnect ==
    [][ \A c \in Conns : \A room \in RoomIds :
          (DisconnectStep(c) /\ room \in socketRooms[c]) =>
              LET remaining == Members(socketRooms', room)
                  announce == {i \in DOMAIN emitted' :
                                  /\ emitted'[i].ev = "user-disconnected"
                                  /\ emitted'[i].room = room
                                  /\ emitted'[i].to = remaining}
                  count == {j \in DOMAIN emitted' :
                               emitted'[j].ev = "user-joined" /\ emitted'[j].room = room}
              IN  /\ announce # {}
                  /\ count # {}
                  /\ \A j \in count :
                         /\ emitted'[j].to = remaining
                         /\ \E i \in announce : i < j
                  /\ \A i \in DOMAIN emitted' : c \notin emitted'[i].to
      ]_vars

\* C20 witness: a member disconnected from a room with another member; that
\* member was sent the announcement and then the count, the leaver nothing.
C20_Witness ==
    /\ lastOp.op = "disconnect"
    /\ Len(emitted) = 2
    /\ emitted[1].ev = "user-disconnected" /\ emitted[1].to # {}
    /\ emitted[2].ev = "user-joined" /\ emitted[2].to = emitted[1].to
    /\ emitted[2].room = emitted[1].room
    /\ lastOp.c \notin emitted[1].to

----------------------------------------------------------------------------
\* The Meeting page (frontend/src/pages/Meeting.tsx) with the server: chat
\*
\* A page owns one socket; its route parameter is the meeting it joins and
\* addresses its chat to.  socket.emit and the server's emits travel as
\* messages in flight, in order per socket.  The page registers its
\* receive-message listener in the effect that emits join-room, so every
\* receive-message that reaches a page finds the listener.
\* Meeting.tsx holds two definitions of the component; only the first one
\* creates the socket (io(backendUrl), setSocket).  handleSendMessage and the
\* receive-message listener are those of the second one, run with the socket
\* the page created.

\* The k-th chat message of the page of c (its id is unique per message).
ChatMessage(c, k) ==
    [ClientMessage(c) EXCEPT !.id = "m-" \o c \o "-" \o ToString(k)]

\* The ids of the messages the page of c has sent (each was appended locally)
SentIds(c) ==
    {messages[c][i].id : i \in {j \in DOMAIN messages[c] : messages[c][j].userId = PeerId(c)}}

\* The payloads of the receive-message events of evs delivered to m, in order
RECURSIVE DeliveredTo(_, _)
DeliveredTo(evs, m) ==
    IF evs = <<>>
    THEN <<>>
    ELSE (IF Head(evs).ev = "receive-message" /\ m \in Head(evs).to
          THEN <<Head(evs).payload>>
          ELSE <<>>) \o DeliveredTo(Tail(evs), m)

\* The page mounts: io(backendUrl) opens the socket of the page for meeting id
PageMount(c, id) ==
    /\ Connect(c)
    /\ meetingId' = [meetingId EXCEPT ![c] = id]
    /\ UNCHANGED <<messages, toServer, toClient>>

\* The join effect of the page: socket.emit('join-room', meetingId, peer.id),
\* handled by the server
PageJoinRoom(c) ==
    /\ JoinRoomOnce(c, meetingId[c], PeerId(c))
    /\ UNCHANGED pageVars

\* handleSendMessage(content): emit send-message and append to the own list
handleSendMessage(c) ==
    /\ connState[c] = "connected"
    /\ Cardinality(SentIds(c)) < MaxChats
    /\ LET message == ChatMessage(c, Cardinality(SentIds(c)) + 1)
       IN  /\ toServer' = [toServer EXCEPT ![c] =
                  Append(@, [roomId |-> meetingId[c], message |-> message])]
           /\ messages' = [messages EXCEPT ![c] = Append(@, message)]
    /\ UNCHANGED <<meetingId, toClient, serverVars>>

\* The server receives the oldest send-message in flight from socket c; its
\* emits go in flight to the sockets they are delivered to
ServerSendMessage(c) ==
    /\ toServer[c] # <<>>
    /\ HandleSendMessage(c, Head(toServer[c]).roomId, Head(toServer[c]).message)
    /\ toServer' = [toServer EXCEPT ![c] = Tail(@)]
    /\ toClient' = [m \in Conns |-> toClient[m] \o DeliveredTo(emitted', m)]
    /\ UNCHANGED <<meetingId, messages>>

\* socket.on('receive-message', message => setMessages(prev => [...prev, message]))
ReceiveMessage(c) ==
    /\ connState[c] = "connected"
    /\ toClient[c] # <<>>
    /\ messages' = [messages EXCEPT ![c] = Append(@, Head(toClient[c]))]
    /\ toClient' = [toClient EXCEPT ![c] = Tail(@)]
    /\ UNCHANGED <<meetingId, toServer, serverVars>>

\* The socket of the page closes: what is in flight on it is lost
PageDisconnect(c) ==
    /\ Disconnect(c)
    /\ toServer' = [toServer EXCEPT ![c] = <<>>]
    /\ toClient' = [toClient EXCEPT ![c] = <<>>]
    /\ UNCHANGED <<meetingId, messages>>

NextChat ==
    \/ \E c \in Conns : \E id \in RoomIds : PageMount(c, id) /\ UNCHANGED <<componentVars, variantVars>>
    \/ \E c \in Conns : PageJoinRoom(c) /\ UNCHANGED <<componentVars, variantVars>>
    \/ \E c \in Conns : handleSendMessage(c) /\ UNCHANGED <<componentVars, variantVars>>
    \/ \E c \in Conns : ServerSendMessage(c) /\ UNCHANGED <<componentVars, variantVars>>
    \/ \E c \in Conns : ReceiveMessage(c) /\ UNCHANGED <<componentVars, variantVars>>
    \/ \E c \in Conns : PageDisconnect(c) /\ UNCHANGED <<componentVars, variantVars>>

SpecChat == Init /\ [][NextChat]_vars

\* How many times the message with this id is in the list of the page of c
Occurrences(c, id) ==
    Cardinality({i \in DOMAIN messages[c] : messages[c][i].id = id})

\* C21: a chat message a participant sent is in that participant's own message
\* list exactly once: the sender never sees its own message twice.
C21_OwnMessageShownOnce ==
    \A c \in Conns : \A id \in SentIds(c) : Occurrences(c, id) = 1

----------------------------------------------------------------------------
\* The join-meeting variant of the server (backend/server.js, second program):
\* the Map `rooms` holds { users: Set } per meeting; GET /meeting/:id creates
\* the entry, join-meeting adds the socket to it, disconnect only logs.

\* app.get('/meeting/:id'): create the entry when the Map has none
GetMeeting(id) ==
    /\ meetings' = IF id \in DOMAIN meetings THEN meetings ELSE MapSet(meetings, id, {})
    /\ emitted' = <<>>
    /\ lastOp' = [op |-> "get-meeting", c |-> "", roomId |-> id, userId |-> ""]
    /\ UNCHANGED <<connState, socketRooms, rooms, messageHandlers, disconnectHandlers>>

\* io.on('connection') of the variant
VariantConnect(c) ==
    /\ Connect(c)
    /\ UNCHANGED meetings

\* socket.on('join-meeting', (meetingId) => ...)
JoinMeeting(c, id) ==
    /\ connState[c] = "connected"
    /\ LET sr1 == [socketRooms EXCEPT ![c] = @ \cup {id}]
       IN  /\ socketRooms' = sr1
           /\ IF id \in DOMAIN meetings
              THEN LET users == meetings[id] \cup {c}
                   IN  /\ meetings' = MapSet(meetings, id, users)
                       /\ emitted' = << IoTo(sr1, id, "user-joined",
                                             [userId |-> c, userCount |-> Cardinality(users)]) >>
              ELSE /\ meetings' = meetings
                   /\ emitted' = <<>>
    /\ lastOp' = [op |-> "join-meeting", c |-> c, roomId |-> id, userId |-> ""]
    /\ UNCHANGED <<connState, rooms, messageHandlers, disconnectHandlers>>

\* socket.on('disconnect', ...) of the variant: the socket has left its rooms,
\* the listener logs
VariantDisconnect(c) ==
    /\ connState[c] = "connected"
    /\ connState' = [connState EXCEPT ![c] = "disconnected"]
    /\ socketRooms' = [socketRooms EXCEPT ![c] = {}]
    /\ emitted' = <<>>
    /\ lastOp' = [op |-> "disconnect", c |-> c, roomId |-> "", userId |-> ""]
    /\ UNCHANGED <<meetings, rooms, messageHandlers, disconnectHandlers>>

NextVariant ==
    \/ \E id \in RoomIds : GetMeeting(id) /\ UNCHANGED <<pageVars, componentVars>>
    \/ \E c \in Conns : VariantConnect(c) /\ UNCHANGED <<pageVars, componentVars>>
    \/ \E c \in Conns : \E id \in RoomIds : JoinMeeting(c, id) /\ UNCHANGED <<pageVars, componentVars>>
    \/ \E c \in Conns : VariantDisconnect(c) /\ UNCHANGED <<pageVars, componentVars>>

SpecVariant == Init /\ [][NextVariant]_vars

\* C22: in the join-meeting variant, after a connection has disconnected no
\* room's users set holds its identifier, and no announced userCount counts a
\* disconnected connection.
C22_DisconnectedNotInUsers ==
    /\ \A c \in Conns : \A id \in DOMAIN meetings :
           connState[c] = "disconnected" => c \notin meetings[id]
    /\ \A i \in DOMAIN emitted :
           emitted[i].ev = "user-joined" =>
               emitted[i].payload.userCount =
                   Cardinality({u \in meetings[emitted[i].room] : connState[u] = "connected"})

----------------------------------------------------------------------------
\* C24: each send-message issued by a member of room R and addressed to R
\* results in exactly one receive-message delivered to each member of R,
\* however many join-room requests the sender issued before.
C24_OneDeliveryPerMember ==
    (lastOp.op = "send-message" /\ lastOp.roomId \in MeetingRooms(lastOp.c)) =>
        \A m \in RoomMembers(lastOp.roomId) :
            Cardinality(DeliveredAt("receive-message", m)) = 1

----------------------------------------------------------------------------
\* C25: in the room table keyed to user sets (GET /meeting/:id with
\* join-meeting) no entry with an empty user set exists in any reachable state.
C25_NoEmptyUsersEntry ==
    \A id \in DOMAIN meetings : meetings[id] # {}

\* This step is a join-meeting of connection c for meeting id
JoinMeetingStep(c, id) ==
    /\ connState[c] = "connected"
    /\ lastOp'.op = "join-meeting" /\ lastOp'.c = c /\ lastOp'.roomId = id

\* C26: in the join-meeting variant a connection that joins a meeting
\* identifier with no room entry causes the entry to be created, is recorded as
\* its occupant, and is sent a user-joined with userCount 1.
C26_FirstJoinCreatesRoom ==
    [][ \A c \in Conns : \A id \in RoomIds :
          (JoinMeetingStep(c, id) /\ id \notin DOMAIN meetings) =>
              /\ id \in DOMAIN meetings'
              /\ c \in meetings'[id]
              /\ \E i \in DOMAIN emitted' :
                     /\ emitted'[i].ev = "user-joined"
                     /\ emitted'[i].payload.userCount = 1
                     /\ c \in emitted'[i].to
      ]_vars

----------------------------------------------------------------------------
\* C27: in every reachable state the count recorded for a room (0 when it has
\* no entry) is at most the number of connections that are members of the
\* room: the recorded count never over-counts.
C27_CountNeverOverCounts ==
    \A room \in RoomIds : RoomGet(rooms, room) <= Cardinality(RoomMembers(room))

\* C27 witness: a disconnect has left a room that still has a member with a
\* recorded count below its membership.
C27_Witness ==
    /\ lastOp.op = "disconnect"
    /\ \E room \in RoomIds :
           /\ RoomMembers(room) # {}
           /\ RoomGet(rooms, room) < Cardinality(RoomMembers(room))

\* C28: if a connection that is already a member of room R issues an accepted
\* join-room for R again, the recorded count of R after the request equals the
\* recorded count before it.
C28_RejoinKeepsCount ==
    [][ \A c \in Conns : \A room \in RoomIds :
          (AcceptedJoinStep(c, room) /\ room \in socketRooms[c]) =>
              RoomGet(rooms', room) = RoomGet(rooms, room)
      ]_vars

----------------------------------------------------------------------------
\* C29: an accepted join-room by connection c for room R changes the recorded
\* count of no room other than R and the rooms c was a member of immediately
\* before, and changes the membership and bound handlers of no connection
\* other than c.
C29_JoinFrame ==
    [][ \A c \in Conns : \A roomId \in RoomIds :
          AcceptedJoinStep(c, roomId) =>
              /\ \A room \in RoomIds \ ({roomId} \cup socketRooms[c]) :
                     /\ RoomGet(rooms', room) = RoomGet(rooms, room)
                     /\ (room \in DOMAIN rooms') = (room \in DOMAIN rooms)
              /\ \A d \in Conns \ {c} :
                     /\ socketRooms'[d] = socketRooms[d]
                     /\ messageHandlers'[d] = messageHandlers[d]
                     /\ disconnectHandlers'[d] = disconnectHandlers[d]
                     /\ connState'[d] = connState[d]
      ]_vars

\* C29 witness: a connection joined again the only room it was ever in while
\* another connection sat, counted, in a different room.
C29_Witness ==
    /\ AcceptedJoin
    /\ Len(disconnectHandlers[lastOp.c]) >= 2
    /\ \A k \in DOMAIN disconnectHandlers[lastOp.c] :
           disconnectHandlers[lastOp.c][k].roomId = lastOp.roomId
    /\ \E d \in Conns \ {lastOp.c} : \E room \in MeetingRooms(d) :
           /\ room # lastOp.roomId
           /\ RoomGet(rooms, room) = 1
           /\ disconnectHandlers[d] # <<>>

----------------------------------------------------------------------------
\* C30: the disconnect of a connection that never issued an accepted join-room
\* changes no room count and no membership and emits no event to any client.
C30_DisconnectWithoutJoinIsSilent ==
    [][ \A c \in Conns :
          (DisconnectStep(c) /\ disconnectHandlers[c] = <<>>) =>
              /\ rooms' = rooms
              /\ \A room \in RoomIds :
                     Members(socketRooms', room) = Members(socketRooms, room)
              /\ \A d \in Conns \ {c} : socketRooms'[d] = socketRooms[d]
              /\ \A i \in DOMAIN emitted' : emitted'[i].to = {}
      ]_vars

\* C30 witness: a connection disconnected without any handler having run while
\* another connection is counted in a room.
C30_Witness ==
    /\ lastOp.op = "disconnect"
    /\ emitted = <<>>
    /\ \E d \in Conns \ {lastOp.c} : \E room \in MeetingRooms(d) : RoomGet(rooms, room) = 1

----------------------------------------------------------------------------
\* The Meeting component (frontend/src/pages/Meeting.tsx, first definition):
\* its effects and their closures, with the server behind its sockets.
\*
\* React state (socket, peer, stream) and the route parameter are fields of
\* `page`; "" stands for null.  A commit renders with the current state and
\* runs, in order, the effects whose dependencies changed; an effect and its
\* cleanup see the values of the render that created them (`rendered`,
\* `cleanup`), not the current state.  The k-th run of the socket effect
\* creates the socket SocketId(k) and a Peer whose id is PeerId of it.

\* The values a render captures
RenderOf(p) ==
    [socket |-> p.socket, peer |-> p.peer, stream |-> p.stream, meetingId |-> p.param]

\* The socket the next io(backendUrl) creates
FreshSockets(p) == {i \in 1..NumConns : p.sockets[SocketId(i)] = "none"}
FreshSocket(p) ==
    SocketId(CHOOSE i \in FreshSockets(p) : \A j \in FreshSockets(p) : i <= j)

\* The cleanup returned by the socket effect: if (socket) socket.disconnect();
\* if (peer) peer.destroy(), on the socket and peer of the closure
RunCleanup(p) ==
    [p EXCEPT !.sockets = IF p.cleanup.socket # ""
                          THEN [@ EXCEPT ![p.cleanup.socket] = "closed"] ELSE @,
              !.peers = IF p.cleanup.peer # ""
                        THEN [@ EXCEPT ![p.cleanup.peer] = "destroyed"] ELSE @]

\* The socket effect run in render r: io(backendUrl), setSocket(newSocket),
\* new Peer(peerId); its cleanup captures the socket, peer and stream of r
SocketEffect(p, r) ==
    LET c == FreshSocket(p)
    IN  [p EXCEPT !.sockets[c] = "open",
                  !.socket = c,
                  !.peers[c] = "connecting",
                  !.cleanup = [socket |-> r.socket, peer |-> r.peer, stream |-> r.stream]]

\* Mutant of JoinEffectEmits: the effect does not wait for the media stream.
JoinEffectEmitsNoStream(r) ==
    IF r.socket = "" \/ r.peer = ""
    THEN <<>>
    ELSE << [socket |-> r.socket, roomId |-> r.meetingId, userId |-> PeerId(r.peer)] >>

\* The join effect run in render r: if (!socket || !peer || !stream) return;
\* socket.emit('join-room', meetingId, peer.id)
JoinEffectEmits(r) ==
    IF r.socket = "" \/ r.peer = "" \/ r.stream = ""
    THEN <<>>
    ELSE << [socket |-> r.socket, roomId |-> r.meetingId, userId |-> PeerId(r.peer)] >>

\* One commit of page p: the cleanup and the socket effect when meetingId
\* changed, then the join effect (one of its dependencies changed)
Commit(p) ==
    LET r == RenderOf(p)
        p1 == IF r.meetingId # p.rendered.meetingId
              THEN SocketEffect(RunCleanup(p), r)
              ELSE p
    IN  [page |-> [p1 EXCEPT !.rendered = r], emits |-> JoinEffectEmits(r)]

\* socket.emit: the events go in flight on their socket
Post(ts, emits) ==
    IF emits = <<>>
    THEN ts
    ELSE [ts EXCEPT ![emits[1].socket] =
             Append(@, [roomId |-> emits[1].roomId, userId |-> emits[1].userId])]

\* The component mounts on the route /meeting/id
MeetingMount(id) ==
    /\ page.phase = "initial"
    /\ LET run == Commit([page EXCEPT !.phase = "mounted", !.param = id])
       IN  /\ page' = run.page
           /\ toServer' = Post(toServer, run.emits)
    /\ UNCHANGED <<meetingId, messages, toClient, serverVars>>

\* A state update (setSocket, setPeer, setStream) is rendered and committed
MeetingRender ==
    /\ page.phase = "mounted"
    /\ RenderOf(page) # page.rendered
    /\ LET run == Commit(page)
       IN  /\ page' = run.page
           /\ toServer' = Post(toServer, run.emits)
    /\ UNCHANGED <<meetingId, messages, toClient, serverVars>>

\* The route parameter changes to id: the component renders with it
MeetingNavigate(id) ==
    /\ page.phase = "mounted"
    /\ id # page.param
    /\ FreshSockets(page) # {}
    /\ LET run == Commit([page EXCEPT !.param = id])
       IN  /\ page' = run.page
           /\ toServer' = Post(toServer, run.emits)
    /\ UNCHANGED <<meetingId, messages, toClient, serverVars>>

\* newPeer.on('open'): setPeer(newPeer); initializeMedia()
PeerOpen(c) ==
    /\ page.phase = "mounted"
    /\ page.peers[c] = "connecting"
    /\ page' = [page EXCEPT !.peers[c] = "open", !.peer = c, !.media[c] = "requested"]
    /\ UNCHANGED <<pageVars, serverVars>>

\* initializeMedia: getUserMedia resolved, setStream(mediaStream)
MediaGranted(c) ==
    /\ page.phase = "mounted"
    /\ page.media[c] = "requested"
    /\ page' = [page EXCEPT !.media[c] = "granted", !.stream = c]
    /\ UNCHANGED <<pageVars, serverVars>>

\* The component unmounts: the cleanup of the last socket effect runs
MeetingUnmount ==
    /\ page.phase = "mounted"
    /\ page' = [RunCleanup(page) EXCEPT !.phase = "unmounted"]
    /\ UNCHANGED <<pageVars, serverVars>>

\* The server accepts the connection of a socket the page opened
SocketConnected(c) ==
    /\ page.sockets[c] = "open"
    /\ Connect(c)
    /\ UNCHANGED <<pageVars, componentVars>>

\* The server handles the oldest join-room in flight on socket c
SocketJoinRoom(c) ==
    /\ toServer[c] # <<>>
    /\ JoinRoom(c, Head(toServer[c]).roomId, Head(toServer[c]).userId)
    /\ toServer' = [toServer EXCEPT ![c] = Tail(@)]
    /\ UNCHANGED <<meetingId, messages, toClient, componentVars>>

\* The server sees the close of a socket the page disconnected
SocketClosed(c) ==
    /\ page.sockets[c] = "closed"
    /\ Disconnect(c)
    /\ toServer' = [toServer EXCEPT ![c] = <<>>]
    /\ UNCHANGED <<meetingId, messages, toClient, componentVars>>

NextPage ==
    \/ \E id \in RoomIds : MeetingMount(id) /\ UNCHANGED variantVars
    \/ MeetingRender /\ UNCHANGED variantVars
    \/ \E id \in RoomIds : MeetingNavigate(id) /\ UNCHANGED variantVars
    \/ \E c \in Conns : PeerOpen(c) /\ UNCHANGED variantVars
    \/ \E c \in Conns : MediaGranted(c) /\ UNCHANGED variantVars
    \/ MeetingUnmount /\ UNCHANGED variantVars
    \/ \E c \in Conns : SocketConnected(c) /\ UNCHANGED variantVars
    \/ \E c \in Conns : SocketJoinRoom(c) /\ UNCHANGED variantVars
    \/ \E c \in Conns : SocketClosed(c) /\ UNCHANGED variantVars

SpecPage == Init /\ [][NextPage]_vars

\* Nothing of the page is in flight or waiting for the server
PageQuiet ==
    \A c \in Conns :
        /\ toServer[c] = <<>>
        /\ page.sockets[c] = "open" => connState[c] = "connected"
        /\ page.sockets[c] = "closed" => connState[c] # "connected"

\* C31: when the Meeting page is unmounted or its meeting identifier changes,
\* the socket the page created is disconnected by the effect cleanup, so that
\* the server processes the participant's departure and stops counting it:
\* the only socket a mounted page holds open is its latest one, an unmounted
\* page holds none open, and once the server has caught up with an unmounted
\* page no room has a member or a count.
C31_CleanupDisconnectsCreatedSocket ==
    /\ page.phase = "mounted" =>
           \A c \in Conns : page.sockets[c] = "open" => c = page.socket
    /\ page.phase = "unmounted" =>
           \A c \in Conns : page.sockets[c] # "open"
    /\ (page.phase = "unmounted" /\ PageQuiet) =>
           \A room \in RoomIds : RoomMembers(room) = {} /\ room \notin DOMAIN rooms

\* The component alone: what it emits stays in flight
NextComponent ==
    \/ \E id \in RoomIds : MeetingMount(id) /\ UNCHANGED variantVars
    \/ MeetingRender /\ UNCHANGED variantVars
    \/ \E id \in RoomIds : MeetingNavigate(id) /\ UNCHANGED variantVars
    \/ \E c \in Conns : PeerOpen(c) /\ UNCHANGED variantVars
    \/ \E c \in Conns : MediaGranted(c) /\ UNCHANGED variantVars
    \/ MeetingUnmount /\ UNCHANGED variantVars

SpecComponent == Init /\ [][NextComponent]_vars

----------------------------------------------------------------------------
\* The peer of socket c has opened (it may have been destroyed since)
HasOpened(p, c) == p.peers[c] \in {"open", "destroyed"}

\* This step emits a join-room on socket c
EmitsJoinRoom(c) == Len(toServer'[c]) = Len(toServer[c]) + 1

----------------------------------------------------------------------------
\* The changes updateRoomCount is tried with (the handlers pass +1 and -1)
Changes == {-2, -1, 0, 1, 2}

\* C33: updateRoomCount(roomId, change) returns max(0, current + change),
\* where current is the stored count or 0 when the room has no entry; it
\* deletes the entry exactly when the result is 0 and otherwise stores the
\* result; with an empty roomId it returns 0 and leaves the table unchanged;
\* no other room's entry is touched.
C33_UpdateRoomCountContract ==
    \A roomId \in RoomInputs : \A change \in Changes :
        LET current == IF roomId \in DOMAIN rooms THEN rooms[roomId] ELSE 0
            expected == IF current + change > 0 THEN current + change ELSE 0
            upd == updateRoomCount(rooms, roomId, change)
        IN  IF roomId = ""
            THEN upd.ret = 0 /\ upd.rooms = rooms
            ELSE /\ upd.ret = expected
                 /\ (expected = 0) <=> (roomId \notin DOMAIN upd.rooms)
                 /\ expected # 0 => upd.rooms[roomId] = expected
                 /\ (DOMAIN upd.rooms) \ {roomId} = (DOMAIN rooms) \ {roomId}
                 /\ \A other \in (DOMAIN rooms) \ {roomId} : upd.rooms[other] = rooms[other]

\* C33 witness: a disconnect ran updateRoomCount(room, -1) twice on a room with
\* one occupant, the second time without an entry (the result was clamped at
\* 0), while another room kept its entry.
C33_Witness ==
    /\ lastOp.op = "disconnect"
    /\ \E i \in DOMAIN emitted : \E j \in DOMAIN emitted :
           /\ i < j
           /\ emitted[i].ev = "user-joined" /\ emitted[j].ev = "user-joined"
           /\ emitted[i].room = emitted[j].room
           /\ emitted[i].payload.totalUsers = 0 /\ emitted[j].payload.totalUsers = 0
           /\ emitted[i].room \notin DOMAIN rooms
    /\ DOMAIN rooms # {}
====
